---- MODULE Spec2Model ----
(***************************************************************************)
(* Guided local search for the capacitated VRP: the cost evaluator         *)
(* (kgls/datastructure/cost_evaluator.py) and the cross-exchange operator  *)
(* (kgls/local_search/operator_cross_exchange.py).                         *)
(*                                                                         *)
(* Node objects are integers: a customer is its node_id (1, 2, ...), the   *)
(* depot sentinel of route r is -r (every depot sentinel has node_id 0),   *)
(* and 0 stands for None.                                                  *)
(***************************************************************************)
EXTENDS Integers, Sequences, FiniteSets, Bags, TLC

VARIABLES
    \* the problem: Node.x_coordinate, Node.y_coordinate, Node.demand by node_id
    x_coordinate, y_coordinate, demand,
    \* VRPSolution: Node.prev, Node.next, Node.route, Route.volume, Route.size
    prev, next, route, volume, size,
    \* CostEvaluator
    capacity, costs, penalized_costs, edge_penalties, baseline_cost,
    edge_ranking, neighborhood, in_neighborhood_of, penalization_enabled,
    penalization_criterium, nodes_to_update_for_relocation_chain,
    ejection_costs, insertion_costs, insertion_after,
    \* search_cross_exchanges: position, arguments and locals
    pc, start_nodes, frame, candidate_moves,
    \* observation: the last call, the number of determine_edge_badness calls so far
    \* modulo 3, the move that was executed, and the number of loop iterations of
    \* the search so far
    last_call, determine_calls, executed, steps

problem_vars == <<x_coordinate, y_coordinate, demand>>
solution_vars == <<prev, next, route, volume, size>>
evaluator_vars == <<capacity, costs, penalized_costs, edge_penalties, baseline_cost,
                    edge_ranking, neighborhood, in_neighborhood_of, penalization_enabled,
                    penalization_criterium, nodes_to_update_for_relocation_chain,
                    ejection_costs, insertion_costs, insertion_after>>
search_vars == <<pc, start_nodes, frame, candidate_moves>>
vars == <<problem_vars, solution_vars, evaluator_vars, search_vars,
          last_call, determine_calls, executed, steps>>

(***************************************************************************)
(* Bounds of the model.                                                    *)
(***************************************************************************)
\* get_and_penalize_worst_edge and penalize hand out at most this many penalties
MaxPenalty == 2
\* length of the seed list handed to search_cross_exchanges
MaxSeeds == 1
\* edge values (floats in the code) are held in units of 1/ValueScale
ValueScale == 10

(***************************************************************************)
(* Program constants.                                                      *)
(***************************************************************************)
neighborhood_size == 20

(***************************************************************************)
(* The instances the initial state is drawn from.  Customers sit on Sites  *)
(* (grid units, the depot at the origin) in any order; a unit scales the   *)
(* grid: baseline_cost is 0 on the small grid, and on the larger grids it  *)
(* is 5 (a penalty of exactly a half), 8 and 10.  One instance has a route *)
(* without customers.                                                      *)
(***************************************************************************)
Sites == << <<-2, 1>>, <<-1, 2>>, <<1, 2>>, <<2, 1>> >>
Units == {1, 50}
Plans == { << <<1, 2>>, <<3, 4>> >>, << <<1, 2, 3>>, <<4>> >> }
DemandProfiles == { <<1, 1, 1, 1>>, <<2, 1, 1, 2>> }
Capacities == {4}
\* evaluator instances: <<site of each customer, unit, plan>>
EvaluatorProblems ==
    { << <<1, 3>>, 1, << <<1, 2>> >> >>,
      << <<1, 3>>, 50, << <<1, 2>> >> >>,
      << <<1, 3>>, 80, << <<1, 2>> >> >>,
      << <<1, 3>>, 80, << <<1>>, <<2>> >> >>,
      << <<1>>, 80, << <<1>>, <<>> >> >>,
      << <<1, 4, 2>>, 1, << <<1, 2, 3>> >> >>,
      << <<1, 4, 2>>, 50, << <<1, 2, 3>> >> >> }

None == 0
Abs(a) == IF a < 0 THEN -a ELSE a
Min(a, b) == IF a <= b THEN a ELSE b

RECURSIVE SumSeq(_)
SumSeq(s) == IF s = <<>> THEN 0 ELSE Head(s) + SumSeq(Tail(s))

RECURSIVE SeqOfSet(_)
\* the elements of a set of integers in ascending order
SeqOfSet(S) ==
    IF S = {} THEN <<>>
    ELSE LET m == CHOOSE a \in S : \A b \in S : a <= b
         IN <<m>> \o SeqOfSet(S \ {m})

Range(s) == {s[i] : i \in DOMAIN s}

(***************************************************************************)
(* Node, Edge, Route: the data structures the two files work on.           *)
(***************************************************************************)
is_depot(n) == n < 0
node_id(n) == IF n < 0 THEN 0 ELSE n
Ids == DOMAIN demand
Customers == Ids \ {0}
Routes == DOMAIN volume
depot(r) == -r
Depots == {depot(r) : r \in Routes}

\* Node.get_neighbour(direction): 0 follows next, 1 follows prev
get_neighbour(n, direction) == IF direction = 0 THEN next[n] ELSE prev[n]

\* Edge: an unordered pair of nodes; equality and hash are those of the id pair
EdgeKey(n1, n2) == {node_id(n1), node_id(n2)}
EdgeKeys == {{i, j} : i, j \in Ids}

RECURSIVE WalkFrom(_, _)
\* the customers from n on, following next up to the depot
WalkFrom(n, fuel) ==
    IF is_depot(n) \/ n = None \/ fuel = 0 THEN <<>>
    ELSE <<n>> \o WalkFrom(next[n], fuel - 1)

\* Route.get_nodes(): the customers of the route in visiting order
get_nodes(r) == WalkFrom(next[depot(r)], Cardinality(Customers))

\* Route.get_edges(): every consecutive pair of the cycle depot, c1, ..., ck, depot
get_edges(r) ==
    LET cycle == <<depot(r)>> \o get_nodes(r) \o <<depot(r)>>
    IN [i \in 1..(Len(cycle) - 1) |-> <<cycle[i], cycle[i + 1]>>]

(***************************************************************************)
(* CostEvaluator: pure helpers.                                            *)
(***************************************************************************)
\* round(math.sqrt(n)) for an integer n >= 0 (sqrt(n) is never half-way)
RoundSqrt(n) ==
    CHOOSE k \in 0..n : /\ 4 * n < (2 * k + 1) * (2 * k + 1)
                        /\ (k = 0 \/ (2 * k - 1) * (2 * k - 1) < 4 * n)

RECURSIVE ISqrtIn(_, _, _)
\* the largest k in lo..hi with k * k <= m: math.sqrt rounded down
ISqrtIn(m, lo, hi) ==
    IF lo >= hi THEN lo
    ELSE LET mid == (lo + hi + 1) \div 2
         IN IF mid * mid <= m THEN ISqrtIn(m, mid, hi) ELSE ISqrtIn(m, lo, mid - 1)

ISqrt(m) == ISqrtIn(m, 0, 46340)

\* CostEvaluator._compute_euclidean_distance, on coordinate sequences indexed by id
compute_euclidean_distance(xs, ys, i, j) ==
    RoundSqrt((xs[i] - xs[j]) * (xs[i] - xs[j]) + (ys[i] - ys[j]) * (ys[i] - ys[j]))

RECURSIVE SortByCost(_, _)
\* sorted(row.items(), key=cost): ascending cost, equal costs in id order
SortByCost(row, ids) ==
    IF ids = {} THEN <<>>
    ELSE LET m == CHOOSE a \in ids : \A b \in ids :
                      row[a] < row[b] \/ (row[a] = row[b] /\ a <= b)
         IN <<m>> \o SortByCost(row, ids \ {m})

\* CostEvaluator._get_nearest_neighbors
get_nearest_neighbors(c, n) ==
    LET sorted_distances_asc == SortByCost(c[n], DOMAIN c)
        others == SelectSeq(sorted_distances_asc, LAMBDA m : m # 0 /\ m # n)
    IN SubSeq(others, 1, Min(Len(others), neighborhood_size))

\* CostEvaluator._compute_neighborhood: the reverse index
compute_in_neighborhood_of(nb, n) ==
    SelectSeq(SeqOfSet(DOMAIN nb), LAMBDA other : n \in Range(nb[other]))

\* CostEvaluator.__init__: int(sum of neighbourhood distances / (K * len(nodes)))
compute_baseline_cost(c, nb) ==
    SumSeq([i \in 1..Cardinality(DOMAIN nb) |->
               SumSeq([k \in 1..Len(nb[i]) |-> c[i][nb[i][k]]])])
      \div (neighborhood_size * Cardinality(DOMAIN c))

\* a feasibility test that accepts every load
is_feasible_Always(load) == TRUE

\* CostEvaluator.is_feasible
is_feasible(load) == load <= capacity

\* CostEvaluator.get_distance
get_distance(n1, n2) ==
    IF ~penalization_enabled
    THEN costs[node_id(n1)][node_id(n2)]
    ELSE penalized_costs[node_id(n1)][node_id(n2)]

\* CostEvaluator.get_neighborhood
get_neighborhood(n) == neighborhood[n]

\* The penalty is computed in binary floating point (IEEE double, 53 significant
\* bits).  The double 0.1 is m0 / 2^55 with m0 = (2^55 + 2) / 10, so that every
\* product below is a whole number of units of 2^-55; Mantissa01Low is m0 modulo 2^16.
Mantissa01Low == 52429

\* the number of low bits (of a value in units of 2^-55) a double near num / den drops:
\* 3 + floor(log2(num / den)), and none when that is negative
DroppedBits(num, den) ==
    CHOOSE s \in 0..24 : /\ s = 0 \/ 8 * num >= den * (2 ^ s)
                         /\ 8 * num < den * (2 ^ (s + 1))

\* d rounded to a multiple of 2^s, a half to the multiple with an even quotient
RoundToMultiple(d, s) ==
    LET low == d - (d % (2 ^ s))
        twice == 2 * (d % (2 ^ s))
    IN IF twice < 2 ^ s THEN low
       ELSE IF twice > 2 ^ s THEN low + (2 ^ s)
       ELSE IF (low \div (2 ^ s)) % 2 = 0 THEN low ELSE low + (2 ^ s)

\* The sign of the float cost + 0.1 * baseline * count minus whole + 0.5, where
\* baseline * count = 10 * (whole - cost) + 5: the distance, in units of 2^-55, that
\* is left after the three roundings of (0.1 * baseline), (... * count), (cost + ...).
FloatAboveHalf(whole, baseline, count) ==
    LET first_low == (baseline * (Mantissa01Low % (2 ^ (DroppedBits(baseline, 10) + 1))))
                        % (2 ^ (DroppedBits(baseline, 10) + 1))
        first_error == RoundToMultiple(first_low, DroppedBits(baseline, 10)) - first_low
        product == RoundToMultiple(((baseline * count) \div 5) + first_error * count,
                                   DroppedBits(baseline * count, 10))
    IN RoundToMultiple(product, DroppedBits(2 * whole + 1, 2))

\* a penalty cut to a whole number with int() in place of round()
PenalizationCosts_Truncated(cost, baseline, count) == cost + ((baseline * count) \div 10)

\* round(cost + 0.1 * baseline * count): the float is rounded to the nearest integer,
\* and one that is exactly a half to the even integer
PenalizationCosts(cost, baseline, count) ==
    LET tenths == baseline * count
        whole == cost + (tenths \div 10)
        rest == tenths % 10
    IN IF rest < 5 THEN whole
       ELSE IF rest > 5 THEN whole + 1
       ELSE IF FloatAboveHalf(whole, baseline, count) > 0 THEN whole + 1
       ELSE IF FloatAboveHalf(whole, baseline, count) < 0 THEN whole
       ELSE IF whole % 2 = 0 THEN whole ELSE whole + 1

\* CostEvaluator.get_solution_costs
RouteCosts(r, ignore_penalties) ==
    LET edges == get_edges(r)
    IN SumSeq([i \in 1..Len(edges) |->
                 IF ignore_penalties
                 THEN costs[node_id(edges[i][1])][node_id(edges[i][2])]
                 ELSE get_distance(edges[i][1], edges[i][2])])

get_solution_costs(ignore_penalties) ==
    SumSeq([r \in 1..Cardinality(Routes) |->
              IF size[r] > 0 THEN RouteCosts(r, ignore_penalties) ELSE 0])

(***************************************************************************)
(* Construction: the solution a plan describes, and CostEvaluator.__init__ *)
(***************************************************************************)
NodesOfPlan(plan) == UNION {Range(plan[r]) : r \in DOMAIN plan}

PlanRouteOf(plan, c) == CHOOSE r \in DOMAIN plan : c \in Range(plan[r])
PlanIndexOf(plan, c) ==
    CHOOSE i \in DOMAIN plan[PlanRouteOf(plan, c)] : plan[PlanRouteOf(plan, c)][i] = c

PlanNext(plan, n) ==
    IF n < 0 THEN (IF plan[-n] = <<>> THEN n ELSE plan[-n][1])
    ELSE LET r == PlanRouteOf(plan, n)
             i == PlanIndexOf(plan, n)
         IN IF i = Len(plan[r]) THEN -r ELSE plan[r][i + 1]

PlanPrev(plan, n) ==
    IF n < 0 THEN (IF plan[-n] = <<>> THEN n ELSE plan[-n][Len(plan[-n])])
    ELSE LET r == PlanRouteOf(plan, n)
             i == PlanIndexOf(plan, n)
         IN IF i = 1 THEN -r ELSE plan[r][i - 1]

PlanVolume(plan, dem, r) == SumSeq([i \in DOMAIN plan[r] |-> dem[plan[r][i]]])

NoCall == [name |-> "", ok |-> TRUE, edge |-> {}, popped |-> 0, reinserted |-> 0,
           criterium |-> "", entries_before |-> 0]

\* the locals of search_cross_exchanges_from, outside a call
NoFrame == [seed |-> 0, segment1_direction |-> 0, segment2_direction |-> 0, neighbour |-> 0,
            improvement_first_cross |-> 0, route2 |-> 0,
            segment1_end |-> None, segment1_list |-> <<>>, segment1_volume |-> 0,
            segment2_start |-> None, segment2_end |-> None, segment2_list |-> <<>>,
            segment2_volume |-> 0]

NotExecuted == [status |-> "none", improvement |-> 0, costs_before |-> 0]

InitWith(site_of, unit, plan, dem, cap) ==
    LET ids == 0..Len(dem)
        objs == NodesOfPlan(plan) \cup {-r : r \in DOMAIN plan}
        xs == [i \in ids |-> IF i = 0 THEN 0 ELSE unit * Sites[site_of[i]][1]]
        ys == [i \in ids |-> IF i = 0 THEN 0 ELSE unit * Sites[site_of[i]][2]]
        c == [i \in ids |-> [j \in ids |-> compute_euclidean_distance(xs, ys, i, j)]]
        nb == [n \in ids \ {0} |-> get_nearest_neighbors(c, n)]
    IN /\ x_coordinate = xs
       /\ y_coordinate = ys
       /\ demand = [i \in ids |-> IF i = 0 THEN 0 ELSE dem[i]]
       /\ prev = [n \in objs |-> PlanPrev(plan, n)]
       /\ next = [n \in objs |-> PlanNext(plan, n)]
       /\ route = [n \in objs |-> IF n < 0 THEN -n ELSE PlanRouteOf(plan, n)]
       /\ volume = [r \in DOMAIN plan |-> PlanVolume(plan, dem, r)]
       /\ size = [r \in DOMAIN plan |-> Len(plan[r])]
       /\ capacity = cap
       /\ costs = c
       /\ penalized_costs = c
       /\ edge_penalties = [e \in {{i, j} : i, j \in ids} |-> 0]
       /\ baseline_cost = compute_baseline_cost(c, nb)
       /\ edge_ranking = [is_none |-> TRUE, heap |-> EmptyBag]
       /\ neighborhood = nb
       /\ in_neighborhood_of = [n \in ids \ {0} |-> compute_in_neighborhood_of(nb, n)]
       /\ penalization_enabled = FALSE
       /\ penalization_criterium = "width"
       /\ nodes_to_update_for_relocation_chain = SeqOfSet(ids \ {0})
       /\ ejection_costs = <<>>
       /\ insertion_costs = <<>>
       /\ insertion_after = <<>>
       /\ pc = "idle"
       /\ start_nodes = <<>>
       /\ frame = NoFrame
       /\ candidate_moves = <<>>
       /\ last_call = NoCall
       /\ determine_calls = 0
       /\ executed = NotExecuted
       /\ steps = 0

\* the evaluator is exercised on one, two and three customers, the search on four
Init ==
    \E p \in EvaluatorProblems :
        InitWith(p[1], p[2], p[3], [i \in DOMAIN p[1] |-> 1], 4)

SearchInit ==
    \E site_of \in Permutations(DOMAIN Sites), unit \in Units, plan \in Plans,
       dem \in DemandProfiles, cap \in Capacities :
        /\ \A r \in DOMAIN plan : PlanVolume(plan, dem, r) <= cap
        /\ InitWith(site_of, unit, plan, dem, cap)

(***************************************************************************)
(* CostEvaluator: the relocation caches.                                   *)
(***************************************************************************)
Override(f, g) ==
    [k \in DOMAIN f \cup DOMAIN g |-> IF k \in DOMAIN g THEN g[k] ELSE f[k]]

\* CostEvaluator.update_ejection_costs: the value stored for node
EjectionCost(n) ==
    get_distance(n, prev[n]) + get_distance(n, next[n]) - get_distance(prev[n], next[n])

\* CostEvaluator.update_ejection_costs(node), called on its own: the entry of the
\* node is refreshed, the dirty list stays
UpdateEjectionCosts(node) ==
    /\ pc = "idle"
    /\ ejection_costs' = Override(ejection_costs, [n \in {node} |-> EjectionCost(n)])
    /\ last_call' = NoCall
    /\ UNCHANGED <<problem_vars, solution_vars, search_vars, determine_calls, executed, steps,
                   capacity, costs, penalized_costs, edge_penalties, baseline_cost,
                   edge_ranking, neighborhood, in_neighborhood_of, penalization_enabled,
                   penalization_criterium, nodes_to_update_for_relocation_chain,
                   insertion_costs, insertion_after>>

\* CostEvaluator._update_insertion_costs: the two values stored for (node, anchor)
InsertionEntry(n, a) ==
    LET cost_insert_before ==
            get_distance(n, prev[a]) + get_distance(n, a) - get_distance(prev[a], a)
        cost_insert_after ==
            get_distance(n, next[a]) + get_distance(n, a) - get_distance(a, next[a])
    IN IF cost_insert_before <= cost_insert_after
       THEN [cost |-> cost_insert_before, after |-> prev[a]]
       ELSE [cost |-> cost_insert_after, after |-> a]

\* CostEvaluator.update_relocation_costs
UpdateRelocationCosts ==
    /\ pc = "idle"
    /\ LET dirty == Range(nodes_to_update_for_relocation_chain)
           pairs == UNION {UNION {{<<n, a>>, <<a, n>>} : a \in Range(in_neighborhood_of[n])}
                           : n \in dirty}
       IN /\ ejection_costs' = Override(ejection_costs, [n \in dirty |-> EjectionCost(n)])
          /\ insertion_costs' =
                Override(insertion_costs, [p \in pairs |-> InsertionEntry(p[1], p[2]).cost])
          /\ insertion_after' =
                Override(insertion_after, [p \in pairs |-> InsertionEntry(p[1], p[2]).after])
    /\ nodes_to_update_for_relocation_chain' = <<>>
    /\ last_call' = NoCall
    /\ UNCHANGED <<problem_vars, solution_vars, search_vars, determine_calls, executed, steps,
                   capacity, costs, penalized_costs, edge_penalties, baseline_cost,
                   edge_ranking, neighborhood, in_neighborhood_of, penalization_enabled,
                   penalization_criterium>>

\* the non-depot keys of self.neighborhood, in the order of the node list
AllCustomersDirty == SeqOfSet(DOMAIN neighborhood)

\* CostEvaluator.enable_penalization
EnablePenalization ==
    /\ pc = "idle"
    /\ penalization_enabled' = TRUE
    /\ nodes_to_update_for_relocation_chain' = AllCustomersDirty
    /\ last_call' = NoCall
    /\ UNCHANGED <<problem_vars, solution_vars, search_vars, determine_calls, executed, steps,
                   capacity, costs, penalized_costs, edge_penalties, baseline_cost,
                   edge_ranking, neighborhood, in_neighborhood_of,
                   penalization_criterium, ejection_costs, insertion_costs,
                   insertion_after>>

\* CostEvaluator.disable_penalization
DisablePenalization ==
    /\ pc = "idle"
    /\ penalization_enabled' = FALSE
    /\ nodes_to_update_for_relocation_chain' = AllCustomersDirty
    /\ last_call' = NoCall
    /\ UNCHANGED <<problem_vars, solution_vars, search_vars, determine_calls, executed, steps,
                   capacity, costs, penalized_costs, edge_penalties, baseline_cost,
                   edge_ranking, neighborhood, in_neighborhood_of,
                   penalization_criterium, ejection_costs, insertion_costs,
                   insertion_after>>

(***************************************************************************)
(* Binary floating point.  The code computes edge values in IEEE doubles:  *)
(* 53 significant bits, every +, -, *, / and sqrt rounded to the nearest   *)
(* double, a half to the even one.  A double is held here as the record    *)
(* [neg, man, exp] with the value (-1)^neg * man * 2^exp, where man is a   *)
(* natural number of exactly 53 bits (or zero), written as a sequence of   *)
(* limbs, lowest first, in base LimbBase.  math.pow(x, 2) is the pow of the *)
(* C library, which is not bound to the nearest double: it returns one of  *)
(* the two doubles that enclose x * x, and which of them is a choice of    *)
(* the build (PowRoundings).                                               *)
(***************************************************************************)
LimbBase == 2 ^ 14
LimbBits == 14
MantissaBits == 53

RECURSIVE Trim(_)
\* a limb sequence without its leading zero limbs
Trim(a) ==
    IF a = <<>> THEN <<>>
    ELSE IF a[Len(a)] = 0 THEN Trim(SubSeq(a, 1, Len(a) - 1)) ELSE a

RECURSIVE BigOfInt(_)
BigOfInt(i) == IF i = 0 THEN <<>> ELSE <<i % LimbBase>> \o BigOfInt(i \div LimbBase)

RECURSIVE IntOfBig(_)
IntOfBig(a) == IF a = <<>> THEN 0 ELSE a[1] + LimbBase * IntOfBig(Tail(a))

LowLimb(a) == IF a = <<>> THEN 0 ELSE a[1]
HighLimbs(a) == IF a = <<>> THEN <<>> ELSE Tail(a)

RECURSIVE AddCarry(_, _, _)
AddCarry(a, b, carry) ==
    IF a = <<>> /\ b = <<>> THEN BigOfInt(carry)
    ELSE <<(LowLimb(a) + LowLimb(b) + carry) % LimbBase>>
            \o AddCarry(HighLimbs(a), HighLimbs(b),
                        (LowLimb(a) + LowLimb(b) + carry) \div LimbBase)

BigAdd(a, b) == AddCarry(a, b, 0)

RECURSIVE SubBorrow(_, _, _)
SubBorrow(a, b, borrow) ==
    IF a = <<>> THEN <<>>
    ELSE <<(a[1] - LowLimb(b) - borrow) % LimbBase>>
            \o SubBorrow(Tail(a), HighLimbs(b),
                         IF a[1] - LowLimb(b) - borrow < 0 THEN 1 ELSE 0)

\* a - b for a >= b
BigSub(a, b) == Trim(SubBorrow(a, b, 0))

RECURSIVE LessFromTop(_, _)
LessFromTop(a, b) ==
    IF a = <<>> THEN FALSE
    ELSE IF a[Len(a)] # b[Len(b)] THEN a[Len(a)] < b[Len(b)]
    ELSE LessFromTop(SubSeq(a, 1, Len(a) - 1), SubSeq(b, 1, Len(b) - 1))

BigLess(a, b) == IF Len(a) # Len(b) THEN Len(a) < Len(b) ELSE LessFromTop(a, b)

RECURSIVE MulSmallCarry(_, _, _)
\* a * k + carry for a multiplier and a carry below LimbBase
MulSmallCarry(a, k, carry) ==
    IF a = <<>> THEN BigOfInt(carry)
    ELSE <<(a[1] * k + carry) % LimbBase>>
            \o MulSmallCarry(Tail(a), k, (a[1] * k + carry) \div LimbBase)

BigMulSmall(a, k) == IF k = 0 THEN <<>> ELSE MulSmallCarry(a, k, 0)

\* a * LimbBase^n
ShiftLimbs(a, n) == IF a = <<>> THEN <<>> ELSE [i \in 1..n |-> 0] \o a

RECURSIVE BigMul(_, _)
BigMul(a, b) ==
    IF b = <<>> THEN <<>>
    ELSE BigAdd(BigMulSmall(a, b[1]), ShiftLimbs(BigMul(a, Tail(b)), 1))

RECURSIVE DivSmall(_, _, _)
\* (rem * LimbBase^Len(a) + a) divided by k < LimbBase, for rem < k
DivSmall(a, k, rem) ==
    IF a = <<>> THEN [quo |-> <<>>, rem |-> rem]
    ELSE LET cur == rem * LimbBase + a[Len(a)]
             rest == DivSmall(SubSeq(a, 1, Len(a) - 1), k, cur % k)
         IN [quo |-> rest.quo \o <<cur \div k>>, rem |-> rest.rem]

BitLen(a) ==
    IF a = <<>> THEN 0
    ELSE LimbBits * (Len(a) - 1)
            + (CHOOSE b \in 1..LimbBits : 2 ^ (b - 1) <= a[Len(a)] /\ a[Len(a)] < 2 ^ b)

\* a * 2^k
Shl(a, k) == ShiftLimbs(BigMulSmall(a, 2 ^ (k % LimbBits)), k \div LimbBits)

\* a divided by 2^k, and whether a one was among the bits shifted out
Shr(a, k) ==
    LET whole == Min(k \div LimbBits, Len(a))
        kept == DivSmall(SubSeq(a, whole + 1, Len(a)), 2 ^ (k % LimbBits), 0)
    IN [quo |-> Trim(kept.quo),
        lost |-> kept.rem # 0 \/ \E i \in 1..whole : a[i] # 0]

FloatZero == [neg |-> FALSE, man |-> <<>>, exp |-> 0]

\* The double for (-1)^neg * (m + f) * 2^e, where 0 <= f < 1 and inexact says
\* that f > 0 (then m has more than 53 bits).  Under "nearest" it is the nearest
\* double, a half going to the even mantissa; under "down" and "up" it is the
\* double below and above in magnitude (the value itself where it is a double).
FloatRoundTo(neg, m, e, inexact, mode) ==
    IF m = <<>> THEN FloatZero
    ELSE IF BitLen(m) <= MantissaBits
    THEN [neg |-> neg, man |-> Shl(m, MantissaBits - BitLen(m)),
          exp |-> e - (MantissaBits - BitLen(m))]
    ELSE LET dropped == BitLen(m) - MantissaBits
             with_guard == Shr(m, dropped - 1)
             kept == Shr(with_guard.quo, 1).quo
             up == CASE mode = "nearest" ->
                          /\ with_guard.quo[1] % 2 = 1
                          /\ with_guard.lost \/ inexact \/ kept[1] % 2 = 1
                     [] mode = "down" -> FALSE
                     [] mode = "up" ->
                          with_guard.quo[1] % 2 = 1 \/ with_guard.lost \/ inexact
             rounded == IF up THEN BigAdd(kept, <<1>>) ELSE kept
         IN IF BitLen(rounded) > MantissaBits
            THEN [neg |-> neg, man |-> Shr(rounded, 1).quo, exp |-> e + dropped + 1]
            ELSE [neg |-> neg, man |-> rounded, exp |-> e + dropped]

\* the rounding of +, -, *, / and math.sqrt
FloatRound(neg, m, e, inexact) == FloatRoundTo(neg, m, e, inexact, "nearest")

\* the doubles math.pow may return for a square that is not a double
PowRoundings == {"down", "up"}

\* math.pow(a, 2) where the build returns the double on the side mode of a * a
FloatPow2(a, mode) == FloatRoundTo(FALSE, BigMul(a.man, a.man), 2 * a.exp, FALSE, mode)

\* float(i) for an int below 2^31
FloatOfInt(i) == FloatRound(i < 0, BigOfInt(Abs(i)), 0, FALSE)

FloatNeg(a) == IF a.man = <<>> THEN a ELSE [a EXCEPT !.neg = ~a.neg]
FloatAbs(a) == [a EXCEPT !.neg = FALSE]

\* a + b
FloatAdd(a, b) ==
    IF a.man = <<>> THEN b
    ELSE IF b.man = <<>> THEN a
    ELSE LET e == Min(a.exp, b.exp)
             left == Shl(a.man, a.exp - e)
             right == Shl(b.man, b.exp - e)
         IN IF a.neg = b.neg THEN FloatRound(a.neg, BigAdd(left, right), e, FALSE)
            ELSE IF left = right THEN FloatZero
            ELSE IF BigLess(right, left) THEN FloatRound(a.neg, BigSub(left, right), e, FALSE)
            ELSE FloatRound(b.neg, BigSub(right, left), e, FALSE)

\* a - b
FloatSub(a, b) == FloatAdd(a, FloatNeg(b))

\* a * b
FloatMul(a, b) ==
    IF a.man = <<>> \/ b.man = <<>> THEN FloatZero
    ELSE FloatRound(a.neg # b.neg, BigMul(a.man, b.man), a.exp + b.exp, FALSE)

\* one more bit of the quotient of a long division
DivideStep(s) ==
    LET twice == BigMulSmall(s.rem, 2)
    IN IF BigLess(twice, s.den)
       THEN [s EXCEPT !.rem = twice, !.quo = BigMulSmall(s.quo, 2)]
       ELSE [s EXCEPT !.rem = BigSub(twice, s.den), !.quo = MulSmallCarry(s.quo, 2, 1)]

RECURSIVE DivideBits(_, _)
\* k more bits of the quotient, by halves; once the division has come out even
\* the remaining bits are zeros
DivideBits(s, k) ==
    IF s.rem = <<>> THEN [s EXCEPT !.quo = Shl(s.quo, k)]
    ELSE IF k = 0 THEN s
    ELSE IF k = 1 THEN DivideStep(s)
    ELSE LET half == DivideBits(s, k \div 2)
         IN IF half.rem = <<>> THEN [half EXCEPT !.quo = Shl(half.quo, k - k \div 2)]
            ELSE DivideBits(half, k - k \div 2)

\* a / b for b # 0: the quotient of the mantissas to 55 bits behind the point
FloatDiv(a, b) ==
    IF a.man = <<>> THEN FloatZero
    ELSE LET first == IF BigLess(a.man, b.man)
                      THEN [quo |-> <<>>, rem |-> a.man, den |-> b.man]
                      ELSE [quo |-> <<1>>, rem |-> BigSub(a.man, b.man), den |-> b.man]
             all == DivideBits(first, MantissaBits + 2)
         IN FloatRound(a.neg # b.neg, all.quo, a.exp - b.exp - (MantissaBits + 2),
                       all.rem # <<>>)

\* one more digit of the integer square root; bit runs through the powers of 4
RootStep(s) ==
    IF BigLess(s.n, BigAdd(s.root, s.bit))
    THEN [s EXCEPT !.root = Shr(s.root, 1).quo, !.bit = Shr(s.bit, 2).quo]
    ELSE [n |-> BigSub(s.n, BigAdd(s.root, s.bit)),
          root |-> BigAdd(Shr(s.root, 1).quo, s.bit),
          bit |-> Shr(s.bit, 2).quo]

RECURSIVE RootBits(_, _)
\* k digits of the square root, by halves
RootBits(s, k) ==
    IF k = 0 THEN s
    ELSE IF k = 1 THEN RootStep(s)
    ELSE LET half == RootBits(s, k \div 2)
         IN IF half.bit = <<>> THEN half ELSE RootBits(half, k - k \div 2)

\* math.sqrt(a) for a >= 0: the root of the mantissa shifted to 110 or 111 bits
FloatSqrt(a) ==
    IF a.man = <<>> THEN a
    ELSE LET k == IF (a.exp - (MantissaBits + 5)) % 2 = 0
                  THEN MantissaBits + 5 ELSE MantissaBits + 4
             n == Shl(a.man, k)
             digits == (BitLen(n) - 1) \div 2 + 1
             r == RootBits([n |-> n, root |-> <<>>, bit |-> Shl(<<1>>, 2 * (digits - 1))],
                           digits)
         IN FloatRound(FALSE, r.root, (a.exp - k) \div 2, r.n # <<>>)

\* math.floor(a) for 0 <= a < 2^31
FloatFloor(a) ==
    IF a.man = <<>> THEN 0
    ELSE IF a.exp >= 0 THEN IntOfBig(Shl(a.man, a.exp))
    ELSE IntOfBig(Shr(a.man, -a.exp).quo)

RECURSIVE FloatEval(_)
\* The float that an arithmetic expression of the code evaluates to.  The
\* expression is written as a value: <<"int", i>> is an int operand,
\* <<"+", a, b>> and the like a binary operation, <<"pow2", a, mode>> stands
\* for math.pow(a, 2) on a build that returns the double on the side mode, and
\* <<"nonzero", d, a>> for 0 if d == 0 else a.
FloatEval(e) ==
    CASE e[1] = "int" -> FloatOfInt(e[2])
      [] e[1] = "+" -> FloatAdd(FloatEval(e[2]), FloatEval(e[3]))
      [] e[1] = "-" -> FloatSub(FloatEval(e[2]), FloatEval(e[3]))
      [] e[1] = "*" -> FloatMul(FloatEval(e[2]), FloatEval(e[3]))
      [] e[1] = "/" -> FloatDiv(FloatEval(e[2]), FloatEval(e[3]))
      [] e[1] = "pow2" -> FloatPow2(FloatEval(e[2]), e[3])
      [] e[1] = "sqrt" -> FloatSqrt(FloatEval(e[2]))
      [] e[1] = "abs" -> FloatAbs(FloatEval(e[2]))
      [] e[1] = "nonzero" -> IF FloatEval(e[2]).man = <<>> THEN FloatZero
                             ELSE FloatEval(e[3])

(***************************************************************************)
(* CostEvaluator: edge badness.  An edge value is a float in the code; the *)
(* value held here is math.floor(ValueScale * value), a whole number.      *)
(* Where ValueScale times the exact value is not a whole number, the       *)
(* rounding of the floats is too small to carry the product across one,    *)
(* and the exact value rounded down is used; where it is a whole number    *)
(* the floats decide on which side the product falls, and they are         *)
(* computed as the code computes them.                                     *)
(***************************************************************************)
\* CostEvaluator._compute_route_center: the sums whose means are the centre
CenterSumX(r) == SumSeq([i \in DOMAIN get_nodes(r) |-> x_coordinate[get_nodes(r)[i]]])
CenterSumY(r) == SumSeq([i \in DOMAIN get_nodes(r) |-> y_coordinate[get_nodes(r)[i]]])

\* CostEvaluator._compute_route_center divides by len(nodes): on a route without
\* customers it raises ZeroDivisionError
ZeroDivisionError == "ZeroDivisionError"
RouteCenterRaises(r) == Len(get_nodes(r)) = 0

\* CostEvaluator._compute_route_center: the two means, as float expressions
compute_route_center(r) ==
    [x |-> <<"/", <<"int", CenterSumX(r)>>, <<"int", Len(get_nodes(r))>> >>,
     y |-> <<"/", <<"int", CenterSumY(r)>>, <<"int", Len(get_nodes(r))>> >>]

\* CostEvaluator._compute_edge_width, lines 276-282, as a float expression; pow
\* holds the sides the two calls of math.pow return
DistanceDepotCenter(route_center_x, route_center_y, pow) ==
    <<"sqrt",
      <<"+", <<"pow2", <<"-", <<"int", x_coordinate[0]>>, route_center_x>>, pow[1]>>,
             <<"pow2", <<"-", <<"int", y_coordinate[0]>>, route_center_y>>, pow[2]>> >> >>

\* CostEvaluator._compute_edge_width, lines 284-296, as a float expression: the
\* distance of a node from the line through the depot and the centre, the four
\* terms taken from the left
distance_node(n, route_center_x, route_center_y, distance_depot_center) ==
    LET depot_x == <<"int", x_coordinate[0]>>
        depot_y == <<"int", y_coordinate[0]>>
        node_x == <<"int", x_coordinate[node_id(n)]>>
        node_y == <<"int", y_coordinate[node_id(n)]>>
        numerator ==
            <<"-",
              <<"+",
                <<"-", <<"*", <<"-", route_center_y, depot_y>>, node_x>>,
                       <<"*", <<"-", route_center_x, depot_x>>, node_y>> >>,
                <<"*", route_center_x, depot_y>> >>,
              <<"*", route_center_y, depot_x>> >>
    IN <<"nonzero", distance_depot_center, <<"/", numerator, distance_depot_center>> >>

\* CostEvaluator._compute_edge_width, line 297, as a float expression
edge_width(n1, n2, r, pow) ==
    LET center == compute_route_center(r)
        distance_depot_center == DistanceDepotCenter(center.x, center.y, pow)
    IN <<"abs", <<"-", distance_node(n1, center.x, center.y, distance_depot_center),
                       distance_node(n2, center.x, center.y, distance_depot_center)>> >>

RECURSIVE GCD(_, _)
GCD(m, n) == IF n = 0 THEN m ELSE GCD(n, m % n)

\* The width of lines 267-297 without rounding, in units of 1/ValueScale: units
\* is the width rounded down, whole says that nothing was rounded off, and
\* floats_exact that the floats of the code give exactly this width (the centre
\* is a number of eighths and the two nodes are at the same distance, so that
\* every intermediate float is exact and the width is zero).  The line
\* coefficients are multiplied by the number of nodes of the route, which makes
\* them integers, and reduced by their common divisor; neither changes
\* distance_node / distance_depot_center.
ExactWidth(n1, n2, r) ==
    LET n == Len(get_nodes(r))
        a == CenterSumY(r) - n * y_coordinate[0]
        b == CenterSumX(r) - n * x_coordinate[0]
        c == CenterSumX(r) * y_coordinate[0] - CenterSumY(r) * x_coordinate[0]
        g == GCD(Abs(a), Abs(b))
        distance_node1 == a * x_coordinate[node_id(n1)] - b * y_coordinate[node_id(n1)] + c
        distance_node2 == a * x_coordinate[node_id(n2)] - b * y_coordinate[node_id(n2)] + c
        floats_exact == /\ (8 * CenterSumX(r)) % n = 0
                        /\ (8 * CenterSumY(r)) % n = 0
                        /\ distance_node1 = distance_node2
    IN IF a * a + b * b = 0
       THEN [units |-> 0, whole |-> TRUE, floats_exact |-> floats_exact]
       ELSE LET difference == ValueScale * (Abs(distance_node1 - distance_node2) \div g)
                distance_depot_center_sq == (a \div g) * (a \div g) + (b \div g) * (b \div g)
                square == (difference * difference) \div distance_depot_center_sq
            IN [units |-> ISqrt(square),
                whole |-> /\ (difference * difference) % distance_depot_center_sq = 0
                          /\ ISqrt(square) * ISqrt(square) = square,
                floats_exact |-> floats_exact]

RECURSIVE OddPart(_)
\* d without its factors 2: an int divided by d is a float without rounding
\* exactly when OddPart(d) divides it
OddPart(d) == IF d % 2 = 0 THEN OddPart(d \div 2) ELSE d

\* What one of the three criterium functions of lines 185-194 returns for an
\* edge of a route with customers, as a float expression
edge_value(criterium, n1, n2, r, pow) ==
    CASE criterium = "length" -> <<"int", costs[node_id(n1)][node_id(n2)]>>
      [] criterium = "width" -> edge_width(n1, n2, r, pow)
      [] criterium = "width_length" ->
            <<"+", edge_width(n1, n2, r, pow), <<"int", costs[node_id(n1)][node_id(n2)]>> >>

\* The value of an edge under a criterium without rounding, in units of
\* 1/ValueScale: the width as in ExactWidth, length the int that is added to it
ExactValue(criterium, n1, n2, r) ==
    LET width == IF criterium = "length"
                 THEN [units |-> 0, whole |-> TRUE, floats_exact |-> TRUE]
                 ELSE ExactWidth(n1, n2, r)
        length == IF criterium = "width" THEN 0 ELSE costs[node_id(n1)][node_id(n2)]
    IN [units |-> width.units + ValueScale * length, whole |-> width.whole,
        floats_exact |-> width.floats_exact, length |-> length]

\* ValueScale * (value / divisor) is a whole number that the floats of the code
\* need not hit: the exact value is whole, and it is not one the floats compute
\* without rounding
DecidedByFloats(criterium, n1, n2, r, divisor) ==
    LET exact == ExactValue(criterium, n1, n2, r)
    IN /\ exact.whole
       /\ exact.units % divisor = 0
       /\ ~(exact.floats_exact /\ exact.length % OddPart(divisor) = 0)

\* math.floor(ValueScale * (value / divisor)) for the value of an edge under a
\* criterium, lines 176-177 with divisor 1 + edge_penalties[edge]
EdgeValueUnits(criterium, n1, n2, r, divisor, pow) ==
    IF ~DecidedByFloats(criterium, n1, n2, r, divisor)
    THEN ExactValue(criterium, n1, n2, r).units \div divisor
    ELSE FloatFloor(FloatEval(<<"*", <<"int", ValueScale>>,
                                     <<"/", edge_value(criterium, n1, n2, r, pow),
                                            <<"int", divisor>> >> >>))

\* CostEvaluator._compute_edge_width.  There is no width on a route without
\* customers: the centre that is computed first raises.
compute_edge_width(n1, n2, r, pow) ==
    IF RouteCenterRaises(r) THEN ZeroDivisionError
    ELSE EdgeValueUnits("width", n1, n2, r, 1, pow)

\* CostEvaluator._compute_edge_length_value
compute_edge_length_value(n1, n2) == ValueScale * costs[node_id(n1)][node_id(n2)]

\* CostEvaluator._compute_edge_width_value
compute_edge_width_value(n1, n2, r, pow) == compute_edge_width(n1, n2, r, pow)

\* CostEvaluator._compute_edge_width_length_value
compute_edge_width_length_value(n1, n2, r, pow) ==
    IF RouteCenterRaises(r) THEN ZeroDivisionError
    ELSE EdgeValueUnits("width_length", n1, n2, r, 1, pow)

compute_edge_value(criterium, n1, n2, r, pow) ==
    CASE criterium = "length" -> compute_edge_length_value(n1, n2)
      [] criterium = "width" -> compute_edge_width_value(n1, n2, r, pow)
      [] criterium = "width_length" -> compute_edge_width_length_value(n1, n2, r, pow)

\* the cycle(["width", "length", "width_length"]) iterator
NextCriterium(criterium) ==
    CASE criterium = "width" -> "length"
      [] criterium = "length" -> "width_length"
      [] criterium = "width_length" -> "width"

\* determine_edge_badness, lines 173-177: the edges of one route with their values
ScoredEdges(r, criterium, pow) ==
    LET edges == get_edges(r)
    IN [i \in DOMAIN edges |->
          [first |-> edges[i][1], second |-> edges[i][2],
           value |-> EdgeValueUnits(criterium, edges[i][1], edges[i][2], r,
                                    1 + edge_penalties[EdgeKey(edges[i][1], edges[i][2])],
                                    pow)]]

RECURSIVE BagOfSeq(_)
BagOfSeq(s) == IF s = <<>> THEN EmptyBag ELSE SetToBag({Head(s)}) (+) BagOfSeq(Tail(s))

RECURSIVE EdgesInSolution(_, _, _)
\* determine_edge_badness, lines 168-177: edges_in_solution, where pows[i] holds the
\* sides math.pow returns on the centre of route rs[i]
EdgesInSolution(rs, criterium, pows) ==
    IF rs = <<>> THEN EmptyBag
    ELSE BagOfSeq(ScoredEdges(Head(rs), criterium, Head(pows)))
            (+) EdgesInSolution(Tail(rs), criterium, Tail(pows))

\* What math.pow may return on the centre of a route: a pair of sides where the
\* value of an edge of the route depends on them, and otherwise any one pair
PowRoundingsOf(r, criterium) ==
    IF /\ criterium # "length"
       /\ \E i \in DOMAIN get_edges(r) :
             DecidedByFloats(criterium, get_edges(r)[i][1], get_edges(r)[i][2], r,
                             1 + edge_penalties[EdgeKey(get_edges(r)[i][1],
                                                        get_edges(r)[i][2])])
    THEN PowRoundings \X PowRoundings
    ELSE {<<"down", "down">>}

RECURSIVE PowChoices(_, _)
\* one pair of sides for every route of rs
PowChoices(rs, criterium) ==
    IF rs = <<>> THEN {<<>>}
    ELSE {<<pow>> \o rest : pow \in PowRoundingsOf(Head(rs), criterium),
                            rest \in PowChoices(Tail(rs), criterium)}

\* the route lists determine_edge_badness is called with
RouteLists == {SeqOfSet(S) : S \in SUBSET Routes}

\* determine_edge_badness, lines 169-171: the centre of every route is computed
\* under width and width_length; the call raises on the first route without customers
DetermineRaises(rs, criterium) ==
    /\ criterium \in {"width", "width_length"}
    /\ \E i \in DOMAIN rs : RouteCenterRaises(rs[i])

\* CostEvaluator.determine_edge_badness: a call that raises has replaced neither the
\* ranking nor the criterion
DetermineEdgeBadness(rs) ==
    /\ pc = "idle"
    /\ IF DetermineRaises(rs, penalization_criterium)
       THEN /\ UNCHANGED <<edge_ranking, penalization_criterium>>
            /\ last_call' = [NoCall EXCEPT !.name = "determine_edge_badness",
                                           !.ok = FALSE,
                                           !.criterium = penalization_criterium]
       ELSE /\ \E pows \in PowChoices(rs, penalization_criterium) :
                 edge_ranking' = [is_none |-> FALSE,
                                  heap |-> EdgesInSolution(rs, penalization_criterium,
                                                           pows)]
            /\ penalization_criterium' = NextCriterium(penalization_criterium)
            /\ last_call' = [NoCall EXCEPT !.name = "determine_edge_badness",
                                           !.criterium = penalization_criterium]
    /\ determine_calls' = (determine_calls + 1) % 3
    /\ UNCHANGED <<problem_vars, solution_vars, search_vars, executed, steps,
                   capacity, costs, penalized_costs, edge_penalties, baseline_cost,
                   neighborhood, in_neighborhood_of, penalization_enabled,
                   nodes_to_update_for_relocation_chain, ejection_costs,
                   insertion_costs, insertion_after>>

RECURSIVE SumOver(_, _)
SumOver(f, S) ==
    IF S = {} THEN 0
    ELSE LET k == CHOOSE k \in S : TRUE IN f[k] + SumOver(f, S \ {k})

\* the penalties handed out so far, over all edges
TotalPenalties == SumOver(edge_penalties, DOMAIN edge_penalties)

\* MaxHeapWithUpdate.get_max_element: the entries heappop may return
MaxElements(heap) ==
    {e \in BagToSet(heap) : \A o \in BagToSet(heap) : o.value <= e.value}

\* heappop raises on an empty heap, and None has no get_max_element
PopFails == edge_ranking.is_none \/ BagToSet(edge_ranking.heap) = {}

\* a call that builds an empty ranking where it finds none
FailedPopEffect_BuildsRanking ==
    /\ edge_ranking' = [is_none |-> FALSE, heap |-> EmptyBag]
    /\ UNCHANGED <<edge_penalties, penalized_costs, nodes_to_update_for_relocation_chain>>

\* get_and_penalize_worst_edge when line 215 raises: nothing was assigned yet
FailedPopEffect ==
    UNCHANGED <<edge_penalties, penalized_costs, edge_ranking,
                nodes_to_update_for_relocation_chain>>

\* an update that writes one direction of the edge only
PenalizedMatrix_OneWay(i, j, penalization_costs) ==
    [penalized_costs EXCEPT ![i][j] = penalization_costs]

\* get_and_penalize_worst_edge, lines 221-226
PenalizedMatrix(i, j, penalization_costs) ==
    [penalized_costs EXCEPT ![i][j] = penalization_costs, ![j][i] = penalization_costs]

\* get_and_penalize_worst_edge, lines 229-232
ReinsertedValue(i, j, count) ==
    IF (ValueScale * costs[i][j]) % (1 + count) # 0 \/ costs[i][j] % OddPart(1 + count) = 0
    THEN (ValueScale * costs[i][j]) \div (1 + count)
    ELSE FloatFloor(FloatEval(<<"*", <<"int", ValueScale>>,
                                     <<"/", <<"int", costs[i][j]>>, <<"int", 1 + count>> >> >>))

\* get_and_penalize_worst_edge, lines 236-239
DirtyAfterPenalty(e) ==
    nodes_to_update_for_relocation_chain
        \o (IF ~is_depot(e.first) THEN <<e.first>> ELSE <<>>)
        \o (IF ~is_depot(e.second) THEN <<e.second>> ELSE <<>>)

\* CostEvaluator.get_and_penalize_worst_edge
GetAndPenalizeWorstEdge ==
    /\ pc = "idle"
    /\ IF PopFails
       THEN /\ FailedPopEffect
            /\ last_call' = [NoCall EXCEPT !.name = "get_and_penalize_worst_edge",
                                           !.ok = FALSE]
       ELSE \E worst_edge \in MaxElements(edge_ranking.heap) :
              LET key == EdgeKey(worst_edge.first, worst_edge.second)
                  node1 == node_id(worst_edge.first)
                  node2 == node_id(worst_edge.second)
                  count == edge_penalties[key] + 1
                  value == ReinsertedValue(node1, node2, count)
              IN /\ TotalPenalties < MaxPenalty
                 /\ edge_penalties' = [edge_penalties EXCEPT ![key] = count]
                 /\ penalized_costs' =
                       PenalizedMatrix(node1, node2,
                           PenalizationCosts(costs[node1][node2], baseline_cost, count))
                 /\ edge_ranking' =
                       [edge_ranking EXCEPT !.heap =
                           (@ (-) SetToBag({worst_edge}))
                              (+) SetToBag({[worst_edge EXCEPT !.value = value]})]
                 /\ nodes_to_update_for_relocation_chain' = DirtyAfterPenalty(worst_edge)
                 /\ last_call' = [name |-> "get_and_penalize_worst_edge", ok |-> TRUE,
                                  edge |-> key, popped |-> worst_edge.value,
                                  reinserted |-> value,
                                  criterium |-> "",
                                  entries_before |-> BagCardinality(edge_ranking.heap)]
    /\ UNCHANGED <<problem_vars, solution_vars, search_vars, determine_calls, executed, steps,
                   capacity, costs, baseline_cost, neighborhood, in_neighborhood_of,
                   penalization_enabled, penalization_criterium, ejection_costs,
                   insertion_costs, insertion_after>>

\* the edges penalize is called with: those of the current solution
SolutionEdgeKeys ==
    UNION {{EdgeKey(get_edges(r)[i][1], get_edges(r)[i][2]) : i \in DOMAIN get_edges(r)}
             : r \in Routes}

\* CostEvaluator.penalize
Penalize(edge) ==
    /\ pc = "idle"
    /\ TotalPenalties < MaxPenalty
    /\ edge_penalties' = [edge_penalties EXCEPT ![edge] = @ + 1]
    /\ last_call' = NoCall
    /\ UNCHANGED <<problem_vars, solution_vars, search_vars, determine_calls, executed, steps,
                   capacity, costs, penalized_costs, baseline_cost, edge_ranking,
                   neighborhood, in_neighborhood_of, penalization_enabled,
                   penalization_criterium, nodes_to_update_for_relocation_chain,
                   ejection_costs, insertion_costs, insertion_after>>

Next ==
    \/ \E rs \in RouteLists : DetermineEdgeBadness(rs)
    \/ GetAndPenalizeWorstEdge
    \/ \E edge \in SolutionEdgeKeys : Penalize(edge)
    \/ EnablePenalization
    \/ DisablePenalization
    \/ UpdateRelocationCosts
    \/ \E node \in Customers : UpdateEjectionCosts(node)

Spec == Init /\ [][Next]_vars

(***************************************************************************)
(* VRPSolution.remove_nodes and insert_nodes_after, on a record of the     *)
(* solution's fields.                                                      *)
(***************************************************************************)
CurrentSolution ==
    [prev |-> prev, next |-> next, route |-> route, volume |-> volume, size |-> size]

\* unlink one node from its route
RemoveNode(sol, n) ==
    LET p == sol.prev[n]
        q == sol.next[n]
        r == sol.route[n]
    IN [prev |-> [sol.prev EXCEPT ![q] = p, ![n] = None],
        next |-> [sol.next EXCEPT ![p] = q, ![n] = None],
        route |-> [sol.route EXCEPT ![n] = None],
        volume |-> [sol.volume EXCEPT ![r] = @ - demand[n]],
        size |-> [sol.size EXCEPT ![r] = @ - 1]]

RECURSIVE remove_nodes(_, _)
remove_nodes(sol, nodes) ==
    IF nodes = <<>> THEN sol ELSE remove_nodes(RemoveNode(sol, Head(nodes)), Tail(nodes))

\* link node n in right after anchor, into the anchor's route
InsertNodeAfter(sol, n, anchor) ==
    LET q == sol.next[anchor]
        r == sol.route[anchor]
    IN [prev |-> [sol.prev EXCEPT ![n] = anchor, ![q] = n],
        next |-> [sol.next EXCEPT ![n] = q, ![anchor] = n],
        route |-> [sol.route EXCEPT ![n] = r],
        volume |-> [sol.volume EXCEPT ![r] = @ + demand[n]],
        size |-> [sol.size EXCEPT ![r] = @ + 1]]

RECURSIVE insert_nodes_after(_, _, _)
\* the nodes end up behind the anchor in the order of the list
insert_nodes_after(sol, nodes, anchor) ==
    IF nodes = <<>> THEN sol
    ELSE insert_nodes_after(InsertNodeAfter(sol, Head(nodes), anchor), Tail(nodes), Head(nodes))

(***************************************************************************)
(* search_cross_exchanges and search_cross_exchanges_from, one loop        *)
(* iteration per step.  pc: "idle", "neighbour" (the for loop of line 73), *)
(* "outer" (the while of line 97), "inner" (the while of line 103), "done" *)
(* (the sorted list was returned), "executed" (a move was executed).       *)
(***************************************************************************)
segment_directions == <<0, 1>>

RECURSIVE SeqsUpTo(_, _)
\* the sequences over S of length at most n
SeqsUpTo(S, n) ==
    IF n = 0 THEN {<<>>}
    ELSE SeqsUpTo(S, n - 1) \cup {Append(q, e) : q \in SeqsUpTo(S, n - 1), e \in S}

\* the seed lists search_cross_exchanges is called with
SeedLists == SeqsUpTo(Customers, MaxSeeds)

start_node == start_nodes[frame.seed]
route1 == route[start_node]

\* lines 68-71
route1_segment_connection_start ==
    IF frame.segment1_direction = 1 THEN prev[start_node] ELSE next[start_node]

\* the candidate of the for loop of line 73
route2_segment_connection_start == get_neighborhood(start_node)[frame.neighbour]

\* lines 82-87
ImprovementFirstCross(segment2_start) ==
    get_distance(start_node, route1_segment_connection_start)
    + get_distance(segment2_start, route2_segment_connection_start)
    - get_distance(start_node, route2_segment_connection_start)
    - get_distance(segment2_start, route1_segment_connection_start)

\* lines 109-110
route1_segment_connection_end == get_neighbour(frame.segment1_end, frame.segment1_direction)
route2_segment_connection_end == get_neighbour(frame.segment2_end, frame.segment2_direction)

\* lines 112-118
Improvement ==
    frame.improvement_first_cross
    + get_distance(frame.segment1_end, route1_segment_connection_end)
    + get_distance(frame.segment2_end, route2_segment_connection_end)
    - get_distance(frame.segment1_end, route2_segment_connection_end)
    - get_distance(frame.segment2_end, route1_segment_connection_end)

\* lines 123-130: the CrossExchange that is stored (directions and neighbour: for
\* observation, not fields of the class)
StoredMove ==
    [segment1 |-> frame.segment1_list,
     segment2 |-> frame.segment2_list,
     segment1_insert_after |->
        IF frame.segment2_direction = 1 THEN route2_segment_connection_start
        ELSE route2_segment_connection_end,
     segment2_insert_after |->
        IF frame.segment1_direction = 1 THEN route1_segment_connection_start
        ELSE route1_segment_connection_end,
     improvement |-> Improvement,
     start_node |-> start_node,
     directions |-> <<frame.segment1_direction, frame.segment2_direction>>,
     neighbour |-> route2_segment_connection_start]

\* line 135
NextSegment2End == get_neighbour(frame.segment2_end, frame.segment2_direction)

\* a walk of segment 1 that does not move on
NextSegment1End_Stays == frame.segment1_end

\* line 143
NextSegment1End == get_neighbour(frame.segment1_end, frame.segment1_direction)

\* line 104: the swapped load of route 1 is feasible
Route1Feasible == is_feasible(volume[route1] - frame.segment1_volume + frame.segment2_volume)

\* line 107: the swapped load of route 2 is feasible
Route2Feasible ==
    is_feasible(volume[frame.route2] - frame.segment2_volume + frame.segment1_volume)

\* lines 136-139
ExtendSegment2List(node) ==
    IF (frame.segment2_direction = 1 /\ frame.segment1_direction = 0)
          \/ (frame.segment1_direction + frame.segment2_direction = 0)
    THEN <<node>> \o frame.segment2_list
    ELSE Append(frame.segment2_list, node)

\* lines 144-147
ExtendSegment1List(node) ==
    IF (frame.segment1_direction = 1 /\ frame.segment2_direction = 0)
          \/ (frame.segment1_direction + frame.segment2_direction = 0)
    THEN <<node>> \o frame.segment1_list
    ELSE Append(frame.segment1_list, node)

\* CrossExchange.__lt__ and the stable sort: the place of moves[i] in
\* sorted(moves), improvement descending, earlier moves first among equals
SortedPlace(moves, i) ==
    1 + Cardinality({j \in DOMAIN moves :
                        \/ moves[j].improvement > moves[i].improvement
                        \/ moves[j].improvement = moves[i].improvement /\ j < i})

\* sorted(candidate_moves)
SortedMoves(moves) ==
    [k \in DOMAIN moves |-> moves[CHOOSE i \in DOMAIN moves : SortedPlace(moves, i) = k]]

\* what a search step leaves alone: the search only reads solution and evaluator
SearchReadsOnly == UNCHANGED <<problem_vars, solution_vars, evaluator_vars>>

FrameAt(seed, d1, d2) ==
    [NoFrame EXCEPT !.seed = seed, !.segment1_direction = d1, !.segment2_direction = d2,
                    !.neighbour = 1]

\* search_cross_exchanges: the call
SearchCrossExchanges(seeds) ==
    /\ pc = "idle"
    /\ start_nodes' = seeds
    /\ candidate_moves' = <<>>
    /\ IF seeds = <<>>
       THEN pc' = "done" /\ frame' = NoFrame
       ELSE pc' = "neighbour" /\ frame' = FrameAt(1, 0, 0)
    /\ steps' = 0
    /\ SearchReadsOnly
    /\ UNCHANGED <<last_call, determine_calls, executed>>

\* lines 73-94: one candidate route2_segment_connection_start
NeighbourStep ==
    /\ pc = "neighbour"
    /\ frame.neighbour <= Len(get_neighborhood(start_node))
    /\ LET segment2_start ==
               get_neighbour(route2_segment_connection_start, frame.segment2_direction)
       IN IF /\ route[route2_segment_connection_start] # route[start_node]
             /\ ~is_depot(segment2_start)
             /\ ImprovementFirstCross(segment2_start) > 0
          THEN /\ frame' = [frame EXCEPT
                              !.improvement_first_cross = ImprovementFirstCross(segment2_start),
                              !.segment2_start = segment2_start,
                              !.segment1_end = start_node,
                              !.segment1_list = <<start_node>>,
                              !.segment1_volume = demand[start_node],
                              !.route2 = route[route2_segment_connection_start]]
               /\ pc' = "outer"
          ELSE /\ frame' = [frame EXCEPT !.neighbour = @ + 1]
               /\ pc' = "neighbour"
    /\ steps' = steps + 1
    /\ SearchReadsOnly
    /\ UNCHANGED <<start_nodes, candidate_moves, last_call, determine_calls, executed>>

\* lines 65-66 and 159-164: the neighbourhood is exhausted; the next pair of
\* directions, the next seed, or the return of the sorted list
DirectionsStep ==
    /\ pc = "neighbour"
    /\ frame.neighbour > Len(get_neighborhood(start_node))
    /\ IF frame.segment2_direction = 0
       THEN /\ frame' = FrameAt(frame.seed, frame.segment1_direction, 1)
            /\ UNCHANGED <<pc, candidate_moves>>
       ELSE IF frame.segment1_direction = 0
       THEN /\ frame' = FrameAt(frame.seed, 1, 0)
            /\ UNCHANGED <<pc, candidate_moves>>
       ELSE IF frame.seed < Len(start_nodes)
       THEN /\ frame' = FrameAt(frame.seed + 1, 0, 0)
            /\ UNCHANGED <<pc, candidate_moves>>
       ELSE /\ frame' = NoFrame
            /\ pc' = "done"
            /\ candidate_moves' = SortedMoves(candidate_moves)
    /\ steps' = steps + 1
    /\ SearchReadsOnly
    /\ UNCHANGED <<start_nodes, last_call, determine_calls, executed>>

\* line 97: the test of the outer while loop, and lines 99-101
OuterStep ==
    /\ pc = "outer"
    /\ IF ~is_depot(frame.segment1_end)
       THEN /\ frame' = [frame EXCEPT !.segment2_end = frame.segment2_start,
                                      !.segment2_list = <<frame.segment2_start>>,
                                      !.segment2_volume = demand[frame.segment2_start]]
            /\ pc' = "inner"
       ELSE /\ frame' = [FrameAt(frame.seed, frame.segment1_direction,
                                 frame.segment2_direction)
                            EXCEPT !.neighbour = frame.neighbour + 1]
            /\ pc' = "neighbour"
    /\ steps' = steps + 1
    /\ SearchReadsOnly
    /\ UNCHANGED <<start_nodes, candidate_moves, last_call, determine_calls, executed>>

\* lines 103-140: the test of the inner while loop and one run of its body;
\* lines 143-149 when the loop is left
InnerStep ==
    /\ pc = "inner"
    /\ IF ~is_depot(frame.segment2_end) /\ Route1Feasible
       THEN /\ candidate_moves' =
                  IF Route2Feasible /\ Improvement > 0
                  THEN Append(candidate_moves, StoredMove)
                  ELSE candidate_moves
            /\ LET segment2_end == NextSegment2End
               IN frame' = [frame EXCEPT
                              !.segment2_end = segment2_end,
                              !.segment2_list = ExtendSegment2List(segment2_end),
                              !.segment2_volume = @ + demand[node_id(segment2_end)]]
            /\ pc' = "inner"
       ELSE /\ LET segment1_end == NextSegment1End
               IN frame' = [frame EXCEPT
                              !.segment1_end = segment1_end,
                              !.segment1_list = ExtendSegment1List(segment1_end),
                              !.segment1_volume = @ + demand[node_id(segment1_end)],
                              !.segment2_end = None,
                              !.segment2_list = <<>>,
                              !.segment2_volume = 0]
            /\ pc' = "outer"
            /\ UNCHANGED candidate_moves
    /\ steps' = steps + 1
    /\ SearchReadsOnly
    /\ UNCHANGED <<start_nodes, last_call, determine_calls, executed>>

\* CrossExchange.execute on one of the returned moves: the two removals, then the
\* two insertions one after the other, so that the second anchor may be a node the
\* first insertion has put back.  An insertion behind a node that is in no route
\* at that moment makes the move malformed, and the solution stays as it was then.
Execute(move) ==
    /\ pc = "done"
    /\ LET removed == remove_nodes(remove_nodes(CurrentSolution, move.segment1), move.segment2)
           first_anchor_left == removed.route[move.segment1_insert_after] # None
           first_inserted ==
               insert_nodes_after(removed, move.segment1, move.segment1_insert_after)
           second_anchor_left ==
               /\ first_anchor_left
               /\ first_inserted.route[move.segment2_insert_after] # None
           second_inserted ==
               insert_nodes_after(first_inserted, move.segment2, move.segment2_insert_after)
           result == IF ~first_anchor_left THEN removed
                     ELSE IF ~second_anchor_left THEN first_inserted
                     ELSE second_inserted
       IN /\ prev' = result.prev
          /\ next' = result.next
          /\ route' = result.route
          /\ volume' = result.volume
          /\ size' = result.size
          /\ executed' = [status |-> IF second_anchor_left THEN "ok" ELSE "malformed",
                          improvement |-> move.improvement,
                          costs_before |-> get_solution_costs(FALSE)]
    /\ pc' = "executed"
    /\ UNCHANGED <<problem_vars, evaluator_vars, start_nodes, frame, candidate_moves,
                   last_call, determine_calls, steps>>

SearchNext ==
    \/ \E seeds \in SeedLists : SearchCrossExchanges(seeds)
    \/ NeighbourStep
    \/ DirectionsStep
    \/ OuterStep
    \/ InnerStep
    \/ \E i \in DOMAIN candidate_moves : Execute(candidate_moves[i])

\* the loops of search_cross_exchanges_from
SearchStep == NeighbourStep \/ DirectionsStep \/ OuterStep \/ InnerStep

\* a search that was called runs its loops to the end; whether a returned move is
\* executed is up to the caller
SearchSpec == SearchInit /\ [][SearchNext]_vars /\ WF_vars(SearchStep)

(***************************************************************************)
(* Properties of the cross-exchange search (SearchSpec).                   *)
(***************************************************************************)
SegmentDemand(segment) == SumSeq([i \in DOMAIN segment |-> demand[node_id(segment[i])]])

Searching == pc \in {"neighbour", "outer", "inner"}

\* C1: every move the search emits respects capacity on both routes: with R1 the
\* route of the seed and R2 the route of the neighbourhood node,
\* R1.volume - demand(segment1) + demand(segment2) <= capacity and
\* R2.volume - demand(segment2) + demand(segment1) <= capacity.
C1_EmittedMovesRespectCapacity ==
    pc # "executed" =>
        \A i \in DOMAIN candidate_moves :
            LET m == candidate_moves[i]
                load1 == volume[route[m.start_node]]
                            - SegmentDemand(m.segment1) + SegmentDemand(m.segment2)
                load2 == volume[route[m.neighbour]]
                            - SegmentDemand(m.segment2) + SegmentDemand(m.segment1)
            IN load1 <= capacity /\ load2 <= capacity

\* a move was emitted that changes both loads, one of them up to the capacity
C1_Witness ==
    /\ pc = "done"
    /\ \E i \in DOMAIN candidate_moves :
          LET m == candidate_moves[i]
          IN /\ SegmentDemand(m.segment1) # SegmentDemand(m.segment2)
             /\ Len(m.segment1) + Len(m.segment2) >= 3
             /\ \/ volume[route[m.start_node]]
                      - SegmentDemand(m.segment1) + SegmentDemand(m.segment2) = capacity
                \/ volume[route[m.neighbour]]
                      - SegmentDemand(m.segment2) + SegmentDemand(m.segment1) = capacity

\* C2: executing an emitted move (remove both segments, insert each list in its
\* stored order after its stored anchor) reduces get_solution_costs by exactly
\* move.improvement, and move.improvement > 0.
C2_ExecutionReducesCostsByImprovement ==
    pc = "executed" =>
        /\ executed.status = "ok"
        /\ executed.improvement > 0
        /\ get_solution_costs(FALSE) = executed.costs_before - executed.improvement

\* C3: neither insert-after anchor of an emitted move is a member of segment1 or
\* of segment2.
C3_AnchorsOutsideSegments ==
    \A i \in DOMAIN candidate_moves :
        LET m == candidate_moves[i]
            members == Range(m.segment1) \cup Range(m.segment2)
        IN m.segment1_insert_after \notin members /\ m.segment2_insert_after \notin members

\* the most loop iterations a search over the seed list can take: per seed and
\* pair of directions, one pass over the neighbourhood, and per neighbour one walk
\* of segment 1 with one walk of segment 2 for each of its ends
MaxRouteSize == CHOOSE m \in {size[r] : r \in Routes} : \A r \in Routes : size[r] <= m
StepBound ==
    Len(start_nodes) * 4
        * (1 + (Cardinality(Customers) - 1) * (1 + (MaxRouteSize + 1) * (MaxRouteSize + 2)))

\* C8: a search that was started returns (pc = "done") after finitely many steps:
\* it takes at most StepBound loop iterations, both segment walks reaching a depot
\* or a capacity stop, and no step of it changes the solution or the evaluator.
C8_SearchTerminatesAndReadsOnly ==
    /\ Searching ~> (pc = "done")
    /\ [](Searching => steps < StepBound)
    /\ [][(pc \in {"idle", "neighbour", "outer", "inner"})
             => UNCHANGED <<solution_vars, evaluator_vars>>]_vars

\* a search over a seed has walked both segments and returned at least one move
C8_Witness ==
    /\ pc = "done"
    /\ start_nodes # <<>>
    /\ steps > 4 * Len(get_neighborhood(start_nodes[1]))
    /\ candidate_moves # <<>>

(***************************************************************************)
(* Properties of the cost evaluator (Spec).                                *)
(***************************************************************************)
GetAndPenalize == "get_and_penalize_worst_edge"

\* C4: in every reachable state, for all node ids i, j,
\* penalized_costs[i][j] = penalized_costs[j][i] and penalized_costs[i][j] >= costs[i][j].
C4_PenalizedCostsSymmetricAndAboveCosts ==
    \A i \in Ids, j \in Ids :
        /\ penalized_costs[i][j] = penalized_costs[j][i]
        /\ penalized_costs[i][j] >= costs[i][j]

\* a penalty has raised the penalized cost of an edge above its cost
C4_Witness ==
    \E i \in Ids, j \in Ids : penalized_costs[i][j] > costs[i][j]

\* C5: with penalization enabled and the solution unchanged, each call to
\* get_and_penalize_worst_edge strictly increases get_solution_costs(solution,
\* ignore_penalties = false) when the returned edge is an edge of the solution, and
\* leaves it equal when it is not.
C5_PenalizingIncreasesSolutionCosts ==
    [][(/\ penalization_enabled
        /\ last_call'.name = GetAndPenalize
        /\ last_call'.ok
        /\ edge_penalties' # edge_penalties)
          => IF last_call'.edge \in SolutionEdgeKeys
             THEN get_solution_costs(FALSE)' > get_solution_costs(FALSE)
             ELSE get_solution_costs(FALSE)' = get_solution_costs(FALSE)]_vars

\* C6: get_and_penalize_worst_edge called when the edge ranking was never built or
\* holds no entry returns no edge and fails, and leaves edge_penalties,
\* penalized_costs, the edge ranking and nodes_to_update_for_relocation_chain as
\* they were.
C6_FailedPopLeavesStateUnchanged ==
    [][(/\ edge_ranking.is_none \/ BagCardinality(edge_ranking.heap) = 0
        /\ last_call'.name = GetAndPenalize
        /\ last_call' # last_call)
          => /\ ~last_call'.ok
             /\ last_call'.edge = {}
             /\ edge_penalties' = edge_penalties
             /\ penalized_costs' = penalized_costs
             /\ edge_ranking' = edge_ranking
             /\ nodes_to_update_for_relocation_chain'
                   = nodes_to_update_for_relocation_chain]_vars

\* the call has failed on a ranking that determine_edge_badness built without edges
C6_Witness ==
    /\ last_call.name = GetAndPenalize
    /\ ~last_call.ok
    /\ ~edge_ranking.is_none
    /\ BagCardinality(edge_ranking.heap) = 0

Cycle == <<"width", "length", "width_length">>

\* C7: the criterion starts at width and advances one step in the cycle
\* width -> length -> width_length -> width on every determine_edge_badness call:
\* after n calls it is number n mod 3 of the cycle, the n-th call scored with number
\* (n-1) mod 3, and a step of any other operation leaves it unchanged.
C7_CriteriumCycles ==
    /\ [](penalization_criterium = Cycle[determine_calls + 1])
    /\ [](last_call.name = "determine_edge_badness"
             => last_call.criterium = Cycle[((determine_calls + 2) % 3) + 1])
    /\ [][last_call'.name # "determine_edge_badness"
             => penalization_criterium' = penalization_criterium]_vars

\* C9: once update_relocation_costs has emptied the dirty list, for every customer n
\* ejection_costs[n] = get_distance(n, n.prev) + get_distance(n, n.next)
\*                       - get_distance(n.prev, n.next)
\* under the current penalization flag and penalized_costs.
C9_EjectionCacheConsistentAfterUpdate ==
    nodes_to_update_for_relocation_chain = <<>> =>
        \A n \in Customers :
            /\ n \in DOMAIN ejection_costs
            /\ ejection_costs[n] = EjectionCost(n)

\* C10: get_and_penalize_worst_edge re-inserts the popped edge with a value
\* strictly lower than the value it was popped with, for every criterion, and the
\* heap holds as many entries after the call as before.
C10_ReinsertedValueIsLower ==
    (last_call.name = GetAndPenalize /\ last_call.ok) =>
        /\ last_call.reinserted < last_call.popped
        /\ BagCardinality(edge_ranking.heap) = last_call.entries_before

\* p = round(cost + 0.1 * baseline * count), stated in tenths: p is a whole number
\* nearest to cost + baseline * count / 10; of two equally near it is the one on the
\* side of the float sum, and the even one when the float sum is exactly the half
IsRoundedPenalty(p, cost, baseline, count) ==
    LET exact == 10 * cost + baseline * count
        above == FloatAboveHalf((exact - 5) \div 10, baseline, count)
    IN /\ Abs(10 * p - exact) <= 5
       /\ Abs(10 * p - exact) = 5 =>
             IF above > 0 THEN 10 * p > exact
             ELSE IF above < 0 THEN 10 * p < exact
             ELSE p % 2 = 0

\* C11 as stated: in every reachable state, for every pair of node ids i, j with
\* edge e = {i, j}, penalized_costs[i][j] = round(costs[i][j] + 0.1 * baseline_cost
\* * edge_penalties[e]).
C11_PenalizedMatrixAgreesWithCounters ==
    \A i \in Ids, j \in Ids :
        IsRoundedPenalty(penalized_costs[i][j], costs[i][j], baseline_cost,
                         edge_penalties[{i, j}])

\* C11 as amended: penalized_costs starts equal to costs; a call of
\* get_and_penalize_worst_edge that returns edge e sets both entries of e to
\* round(costs + 0.1 * baseline_cost * edge_penalties[e]) for the count of e after
\* the call and leaves every other entry alone; every other operation, penalize
\* included, leaves penalized_costs unchanged.
C11_PenalizedMatrixFollowsPenalizingCalls ==
    /\ penalized_costs = costs
    /\ [][IF /\ last_call'.name = GetAndPenalize
             /\ last_call'.ok
             /\ edge_penalties' # edge_penalties
          THEN \A i \in Ids, j \in Ids :
                  IF {i, j} = last_call'.edge
                  THEN IsRoundedPenalty(penalized_costs'[i][j], costs[i][j], baseline_cost,
                                        edge_penalties'[{i, j}])
                  ELSE penalized_costs'[i][j] = penalized_costs[i][j]
          ELSE penalized_costs' = penalized_costs]_vars

\* an edge was penalized by get_and_penalize_worst_edge and then by penalize: its
\* penalized cost is above its cost and behind its counter
C11_Witness ==
    \E i \in Ids, j \in Ids :
        /\ penalized_costs[i][j] > costs[i][j]
        /\ ~IsRoundedPenalty(penalized_costs[i][j], costs[i][j], baseline_cost,
                             edge_penalties[{i, j}])

====
